---- MODULE Spec2Model ----
(***************************************************************************)
(* Ising-model golden model: hw/unit_tests/compute_unit/                   *)
(* high_level_hamiltonian.py.                                              *)
(*                                                                         *)
(* Vectors are functions over 0..n-1 (numpy's 0-based indexing); a matrix  *)
(* J is a vector of vectors, J[a][b] standing for numpy's J[a, b].  A call *)
(* either returns a value or raises; both outcomes are values of the form  *)
(* Return(v) / Raise(e).  The integers of the model are unbounded: with    *)
(* entries of magnitude <= 2 and at most MaxN+1 sites every intermediate   *)
(* sum stays far inside int64 and inside the exact range of float64.       *)
(***************************************************************************)
EXTENDS Integers, FiniteSets, Sequences, TLC

\* Largest matrix dimension N the model enumerates.
MaxN == 2

\* Entries the enumerated coupling matrices draw from.
JVals == {-1, 2}

\* Longest configuration handed to a call (one more than MaxN, so that two
\* unequal lengths, both different from 1, occur).
MaxLen == MaxN + 1

----
\* Values and shapes

Size(v) == Cardinality(DOMAIN v)

Vec(n, S) == [0..(n - 1) -> S]

Configs(n) == Vec(n, {0, 1})

AnyConfig == UNION {Configs(n) : n \in 1..MaxLen}

Ternary == {-1, 0, 1}

Matrix(n) == Vec(n, Vec(n, JVals))

AnyMatrix == UNION {Matrix(n) : n \in 1..MaxN}

Return(v) == [raised |-> FALSE, value |-> v]

Raise(e) == [raised |-> TRUE, value |-> e]

RECURSIVE SumTo(_, _)
\* v[0] + ... + v[n-1]
SumTo(v, n) == IF n <= 0 THEN 0 ELSE SumTo(v, n - 1) + v[n - 1]

np_ones(n) == [i \in 0..(n - 1) |-> 1]

np_zeros(n) == [i \in 0..(n - 1) |-> 0]

Truthy(x) == x # 0

----
\* The functions of the module

ToSpinsNoOffset(sigma) == [i \in DOMAIN sigma |-> 2 * sigma[i]]

\* spins = 2 * sigma - 1
ToSpins(sigma) == [i \in DOMAIN sigma |-> 2 * sigma[i] - 1]

\* numpy's matmul of a 1-D operand with a 2-D one: the core dimensions must
\* agree (matmul never broadcasts them).
MatMulVecMat(v, M) ==
    IF Size(v) # Size(M) THEN Raise("ValueError")
    ELSE Return([j \in DOMAIN M |->
                   SumTo([i \in DOMAIN v |-> v[i] * M[i][j]], Size(v))])

\* numpy's matmul of two 1-D operands: the inner product.
MatMulVecVec(a, b) ==
    IF Size(a) # Size(b) THEN Raise("ValueError")
    ELSE Return(SumTo([i \in DOMAIN a |-> a[i] * b[i]], Size(a)))

calculate_hamiltonian_broadcast(sigma, J) ==
    LET spins == ToSpins(sigma)
        wide  == IF Size(spins) = 1 THEN [i \in DOMAIN J |-> spins[0]] ELSE spins
        left  == MatMulVecMat(wide, J)
    IN  IF left.raised THEN left ELSE MatMulVecVec(left.value, wide)

calculate_hamiltonian(sigma, J) ==
    LET spins == ToSpins(sigma)
        left  == MatMulVecMat(spins, J)
    IN  IF left.raised THEN left ELSE MatMulVecVec(left.value, spins)

calculate_energy_difference_swapped(sigma_old, sigma_new, J) ==
    LET energy_old == calculate_hamiltonian(sigma_old, J)
        energy_new == calculate_hamiltonian(sigma_new, J)
    IN  IF energy_old.raised THEN energy_old
        ELSE IF energy_new.raised THEN energy_new
        ELSE Return(energy_old.value - energy_new.value)

calculate_energy_difference(sigma_old, sigma_new, J) ==
    LET energy_old == calculate_hamiltonian(sigma_old, J)
        energy_new == calculate_hamiltonian(sigma_new, J)
    IN  IF energy_old.raised THEN energy_old
        ELSE IF energy_new.raised THEN energy_new
        ELSE Return(energy_new.value - energy_old.value)

verify_global_flip_symmetry(J) ==
    LET size         == Size(J)
        energy_ones  == calculate_hamiltonian(np_ones(size), J)
        energy_zeros == calculate_hamiltonian(np_zeros(size), J)
    IN  IF energy_ones.raised THEN energy_ones
        ELSE IF energy_zeros.raised THEN energy_zeros
        ELSE Return(energy_ones.value - energy_zeros.value = 0)

Xor(a, b) == IF Truthy(a) # Truthy(b) THEN 1 ELSE 0

Not(a) == IF Truthy(a) THEN 0 ELSE 1

\* numpy's broadcasting of two 1-D operands of an elementwise ufunc: equal
\* lengths pair up, a length-1 operand is stretched to the other's length,
\* anything else raises.
Broadcast(a, b) ==
    IF Size(a) = Size(b) THEN Return(<<a, b>>)
    ELSE IF Size(a) = 1 THEN Return(<<[i \in DOMAIN b |-> a[0]], b>>)
    ELSE IF Size(b) = 1 THEN Return(<<a, [i \in DOMAIN a |-> b[0]]>>)
    ELSE Raise("ValueError")

generate_sigma_f(sigma_previous, sigma_new) ==
    LET both == Broadcast(sigma_previous, sigma_new)
    IN  IF both.raised THEN both
        ELSE LET p  == both.value[1]
                 n  == both.value[2]
                 sf == [i \in DOMAIN p |-> Xor(p[i], n[i])]
             IN  Return(<<sf, [i \in DOMAIN sf |-> Not(sf[i])]>>)

generate_sigma_c_unsigned(sigma_f, sigma_new, vector_size) ==
    [i \in DOMAIN sigma_f |->
        IF i < vector_size /\ Truthy(sigma_f[i]) THEN 1 ELSE 0]

generate_sigma_c(sigma_f, sigma_new, vector_size) ==
    [i \in DOMAIN sigma_f |->
        IF i < vector_size /\ Truthy(sigma_f[i])
        THEN (IF Truthy(sigma_new[i]) THEN 1 ELSE -1)
        ELSE 0]

generate_sigma_r_ungated(sigma_f_inv, sigma_new, vector_size) ==
    [i \in DOMAIN sigma_f_inv |->
        IF i < vector_size
        THEN (IF Truthy(sigma_new[i]) THEN 1 ELSE -1)
        ELSE 0]

generate_sigma_r(sigma_f_inv, sigma_new, vector_size) ==
    [i \in DOMAIN sigma_f_inv |->
        IF i < vector_size /\ Truthy(sigma_f_inv[i])
        THEN (IF Truthy(sigma_new[i]) THEN 1 ELSE -1)
        ELSE 0]

InnerBodyNoSign(column_sum, sigma_r, J, col, row) ==
    column_sum + J[col][row]

\* column_sum += sigma_r[row] * J[col, row]
InnerBody(column_sum, sigma_r, J, col, row) ==
    column_sum + sigma_r[row] * J[col][row]

OuterBodyUnsigned(total_sum, sigma_c, col, column_sum) ==
    total_sum + column_sum

\* total_sum += sigma_c[col] * column_sum
OuterBody(total_sum, sigma_c, col, column_sum) ==
    total_sum + sigma_c[col] * column_sum

RECURSIVE InnerLoop(_, _, _, _, _, _)
\* for row in range(vector_size), entered at `row` with `column_sum`
InnerLoop(column_sum, sigma_r, J, col, row, vector_size) ==
    IF row >= vector_size THEN column_sum
    ELSE InnerLoop(InnerBody(column_sum, sigma_r, J, col, row),
                   sigma_r, J, col, row + 1, vector_size)

RECURSIVE OuterLoop(_, _, _, _, _, _, _)
\* for col in range(col_per_cc), entered at `col` with `total_sum`
OuterLoop(total_sum, sigma_r, sigma_c, J, col, col_per_cc, vector_size) ==
    IF col >= col_per_cc THEN total_sum
    ELSE OuterLoop(OuterBody(total_sum, sigma_c, col,
                             InnerLoop(0, sigma_r, J, col, 0, vector_size)),
                   sigma_r, sigma_c, J, col + 1, col_per_cc, vector_size)

calculate_expected_output(sigma_r, sigma_c, J, col_per_cc, vector_size) ==
    OuterLoop(0, sigma_r, sigma_c, J, 0, col_per_cc, vector_size)

RECURSIVE ColumnsLoopUnsigned(_, _, _, _, _)
ColumnsLoopUnsigned(total_energy, sigma_bits, J, col, vector_size) ==
    IF col >= vector_size THEN total_energy
    ELSE ColumnsLoopUnsigned(
             total_energy + InnerLoop(0, sigma_bits, J, col, 0, vector_size),
             sigma_bits, J, col + 1, vector_size)

energy_from_columns_full_unsigned(sigma_bits, J, vector_size) ==
    ColumnsLoopUnsigned(0, sigma_bits, J, 0, vector_size)

RECURSIVE ColumnsLoop(_, _, _, _, _)
\* for col in range(vector_size) of energy_from_columns_full
ColumnsLoop(total_energy, sigma_bits, J, col, vector_size) ==
    IF col >= vector_size THEN total_energy
    ELSE ColumnsLoop(
             total_energy
               + sigma_bits[col] * InnerLoop(0, sigma_bits, J, col, 0, vector_size),
             sigma_bits, J, col + 1, vector_size)

energy_from_columns_full(sigma_bits, J, vector_size) ==
    ColumnsLoop(0, sigma_bits, J, 0, vector_size)

verify_iterative_vs_hamiltonian(sigma_old, sigma_new, J, vector_size) ==
    LET spins_old == ToSpins(sigma_old)
        spins_new == ToSpins(sigma_new)
        energy_new_cols == energy_from_columns_full(spins_new, J, vector_size)
        energy_old_cols == energy_from_columns_full(spins_old, J, vector_size)
        iterative_result == energy_new_cols - energy_old_cols
        hamiltonian == calculate_energy_difference(sigma_old, sigma_new, J)
    IN  IF hamiltonian.raised THEN hamiltonian
        ELSE Return([match |-> iterative_result = hamiltonian.value,
                     iterative_result |-> iterative_result,
                     hamiltonian_result |-> hamiltonian.value])

----
\* State: the call in progress (op, its arguments, what it returned), the
\* vectors the flip decomposition has produced so far, and the locals of
\* calculate_expected_output's loops.

VARIABLES pc, op, J, sigma_old, sigma_new, vector_size, col_per_cc, ret,
          sigma_f, sigma_f_inv, sigma_c, sigma_r,
          col, row, column_sum, total_sum, reads

args == <<J, sigma_old, sigma_new, vector_size, col_per_cc>>

sigmas == <<sigma_f, sigma_f_inv, sigma_c, sigma_r>>

locals == <<col, row, column_sum, total_sum, reads>>

vars == <<pc, op, ret, args, sigmas, locals>>

Init ==
    /\ pc = "idle"
    /\ op = "none"
    /\ J = <<>>
    /\ sigma_old = <<>>
    /\ sigma_new = <<>>
    /\ vector_size = 0
    /\ col_per_cc = 0
    /\ ret = Return(0)
    /\ sigma_f = <<>>
    /\ sigma_f_inv = <<>>
    /\ sigma_c = <<>>
    /\ sigma_r = <<>>
    /\ col = 0
    /\ row = 0
    /\ column_sum = 0
    /\ total_sum = 0
    /\ reads = {}

Call_calculate_hamiltonian ==
    /\ pc = "idle"
    /\ \E M \in AnyMatrix, sigma \in AnyConfig :
          /\ J' = M
          /\ sigma_new' = sigma
          /\ ret' = calculate_hamiltonian(sigma, M)
    /\ op' = "calculate_hamiltonian"
    /\ pc' = "returned"
    /\ UNCHANGED <<sigma_old, vector_size, col_per_cc, sigmas, locals>>

Call_calculate_energy_difference ==
    /\ pc = "idle"
    /\ \E M \in AnyMatrix :
          \E so \in Configs(Size(M)), sn \in Configs(Size(M)) :
             /\ J' = M
             /\ sigma_old' = so
             /\ sigma_new' = sn
             /\ ret' = calculate_energy_difference(so, sn, M)
    /\ op' = "calculate_energy_difference"
    /\ pc' = "returned"
    /\ UNCHANGED <<vector_size, col_per_cc, sigmas, locals>>

Call_verify_global_flip_symmetry ==
    /\ pc = "idle"
    /\ \E M \in AnyMatrix :
          /\ J' = M
          /\ ret' = verify_global_flip_symmetry(M)
    /\ op' = "verify_global_flip_symmetry"
    /\ pc' = "returned"
    /\ UNCHANGED <<sigma_old, sigma_new, vector_size, col_per_cc, sigmas, locals>>

Call_generate_sigma_f ==
    /\ pc = "idle"
    /\ \E so \in AnyConfig, sn \in AnyConfig :
          LET r == generate_sigma_f(so, sn)
          IN  /\ sigma_old' = so
              /\ sigma_new' = sn
              /\ ret' = r
              /\ sigma_f' = IF r.raised THEN sigma_f ELSE r.value[1]
              /\ sigma_f_inv' = IF r.raised THEN sigma_f_inv ELSE r.value[2]
              /\ pc' = IF r.raised THEN "returned" ELSE "decomposed"
    /\ op' = "generate_sigma_f"
    /\ UNCHANGED <<J, vector_size, col_per_cc, sigma_c, sigma_r, locals>>

\* The encoders are called on the two configurations a decomposition of
\* equal-length inputs came from, with an active size within the vectors.
Call_generate_sigma_c ==
    /\ pc = "decomposed"
    /\ Size(sigma_old) = Size(sigma_new)
    /\ \E v \in 0..Size(sigma_f) :
          /\ vector_size' = v
          /\ sigma_c' = generate_sigma_c(sigma_f, sigma_new, v)
    /\ op' = "generate_sigma_c"
    /\ pc' = "encoded_c"
    /\ UNCHANGED <<J, sigma_old, sigma_new, col_per_cc, ret,
                   sigma_f, sigma_f_inv, sigma_r, locals>>

Call_generate_sigma_r ==
    /\ pc = "encoded_c"
    /\ sigma_r' = generate_sigma_r(sigma_f_inv, sigma_new, vector_size)
    /\ op' = "generate_sigma_r"
    /\ pc' = "encoded_r"
    /\ UNCHANGED <<J, sigma_old, sigma_new, vector_size, col_per_cc, ret,
                   sigma_f, sigma_f_inv, sigma_c, locals>>

\* The hardware model run on the decomposition's row and column encodings,
\* over the active window the encodings were generated for.
Call_calculate_expected_output ==
    /\ pc = "encoded_r"
    /\ Size(sigma_new) \in 1..MaxN
    /\ \E M \in Matrix(Size(sigma_new)) :
          /\ J' = M
          /\ ret' = Return(calculate_expected_output(sigma_r, sigma_c, M,
                                                     vector_size, vector_size))
    /\ col_per_cc' = vector_size
    /\ op' = "calculate_expected_output"
    /\ pc' = "returned"
    /\ UNCHANGED <<sigma_old, sigma_new, vector_size, sigmas, locals>>

\* The hardware model run on one configuration's own spin vector as both
\* encodings, over the full matrix.
Call_calculate_expected_output_spins ==
    /\ pc = "idle"
    /\ \E M \in AnyMatrix :
          \E sigma \in Configs(Size(M)) :
             /\ J' = M
             /\ sigma_new' = sigma
             /\ sigma_r' = ToSpins(sigma)
             /\ sigma_c' = ToSpins(sigma)
             /\ vector_size' = Size(M)
             /\ col_per_cc' = Size(M)
             /\ ret' = Return(calculate_expected_output(ToSpins(sigma), ToSpins(sigma),
                                                        M, Size(M), Size(M)))
    /\ op' = "calculate_expected_output_spins"
    /\ pc' = "returned"
    /\ UNCHANGED <<sigma_old, sigma_f, sigma_f_inv, locals>>

Call_energy_from_columns_full ==
    /\ pc = "idle"
    /\ \E M \in AnyMatrix :
          \E sigma \in Configs(Size(M)), v \in 0..Size(M) :
             /\ J' = M
             /\ sigma_new' = sigma
             /\ vector_size' = v
             /\ ret' = Return(energy_from_columns_full(ToSpins(sigma), M, v))
    /\ op' = "energy_from_columns_full"
    /\ pc' = "returned"
    /\ UNCHANGED <<sigma_old, col_per_cc, sigmas, locals>>

Call_verify_iterative_vs_hamiltonian ==
    /\ pc = "idle"
    /\ \E M \in AnyMatrix :
          \E so \in Configs(Size(M)), sn \in Configs(Size(M)), v \in 0..Size(M) :
             /\ J' = M
             /\ sigma_old' = so
             /\ sigma_new' = sn
             /\ vector_size' = v
             /\ ret' = verify_iterative_vs_hamiltonian(so, sn, M, v)
    /\ op' = "verify_iterative_vs_hamiltonian"
    /\ pc' = "returned"
    /\ UNCHANGED <<col_per_cc, sigmas, locals>>

Next ==
    \/ Call_calculate_hamiltonian
    \/ Call_calculate_energy_difference
    \/ Call_verify_global_flip_symmetry
    \/ Call_generate_sigma_f
    \/ Call_generate_sigma_c
    \/ Call_generate_sigma_r
    \/ Call_calculate_expected_output
    \/ Call_calculate_expected_output_spins
    \/ Call_energy_from_columns_full
    \/ Call_verify_iterative_vs_hamiltonian

Spec == Init /\ [][Next]_vars

----
\* calculate_expected_output step by step: one action per loop test and per
\* loop body, on any window col_per_cc <= vector_size <= N.

\* The row/column encodings the callers hand over: a flip decomposition's
\* (never both nonzero at one index; generate_sigma_r / generate_sigma_c, or
\* the 1-bit sigma_c of the driver), or one spin vector used as both.
EncodingPair(r, c) ==
    \/ \A i \in DOMAIN r : r[i] = 0 \/ c[i] = 0
    \/ r = c /\ \A i \in DOMAIN r : r[i] # 0

InitAccumulate ==
    /\ pc = "outer"
    /\ op = "calculate_expected_output"
    /\ J \in AnyMatrix
    /\ sigma_r \in Vec(Size(J), Ternary)
    /\ sigma_c \in {c \in Vec(Size(J), Ternary) : EncodingPair(sigma_r, c)}
    /\ vector_size \in 0..Size(J)
    /\ col_per_cc \in 0..vector_size
    /\ sigma_old = <<>>
    /\ sigma_new = <<>>
    /\ ret = Return(0)
    /\ sigma_f = <<>>
    /\ sigma_f_inv = <<>>
    /\ col = 0
    /\ row = 0
    /\ column_sum = 0
    /\ total_sum = 0
    /\ reads = {}

\* for col in range(col_per_cc): column_sum = 0
OuterEnter ==
    /\ pc = "outer"
    /\ col < col_per_cc
    /\ column_sum' = 0
    /\ row' = 0
    /\ pc' = "inner"
    /\ UNCHANGED <<op, ret, args, sigmas, col, total_sum, reads>>

\* for row in range(vector_size): column_sum += sigma_r[row] * J[col, row]
InnerStep ==
    /\ pc = "inner"
    /\ row < vector_size
    /\ column_sum' = InnerBody(column_sum, sigma_r, J, col, row)
    /\ reads' = reads \cup {<<col, row>>}
    /\ row' = row + 1
    /\ UNCHANGED <<pc, op, ret, args, sigmas, col, total_sum>>

\* total_sum += sigma_c[col] * column_sum, and on to the next column
InnerExit ==
    /\ pc = "inner"
    /\ row >= vector_size
    /\ total_sum' = OuterBody(total_sum, sigma_c, col, column_sum)
    /\ col' = col + 1
    /\ pc' = "outer"
    /\ UNCHANGED <<op, ret, args, sigmas, row, column_sum, reads>>

\* return int(total_sum)
OuterExit ==
    /\ pc = "outer"
    /\ col >= col_per_cc
    /\ ret' = Return(total_sum)
    /\ pc' = "done"
    /\ UNCHANGED <<op, args, sigmas, locals>>

NextAccumulate ==
    \/ OuterEnter
    \/ InnerStep
    \/ InnerExit
    \/ OuterExit

SpecAccumulate == InitAccumulate /\ [][NextAccumulate]_vars

----
\* Properties

N == Size(J)

Transpose(M) == [a \in DOMAIN M |-> [b \in DOMAIN M |-> M[b][a]]]

Symmetric(M) == M = Transpose(M)

ConstantMatrix(M) == \A a \in DOMAIN M, b \in DOMAIN M : M[a][b] = M[0][0]

\* sum over j in 1..n-1 of M[0][j] * s[j]: row 0 without its diagonal term
OffDiagonalRow0(M, s) ==
    SumTo([j \in DOMAIN M |-> IF j = 0 THEN 0 ELSE M[0][j] * s[j]], Size(M))

\* sum over row < rows of sr[row] * M[c][row]
RowSum(sr, M, c, rows) == SumTo([r \in 0..(rows - 1) |-> sr[r] * M[c][r]], rows)

\* sum over c < k of sc[c] * (sum over row < rows of sr[row] * M[c][row])
WindowSum(sr, sc, M, k, rows) ==
    SumTo([c \in 0..(k - 1) |-> sc[c] * RowSum(sr, M, c, rows)], k)

\* v with every entry at an index >= n replaced by 0
MaskVec(v, n) == [i \in DOMAIN v |-> IF i < n THEN v[i] ELSE 0]

\* M with every entry outside columns < k, rows < rows replaced by 0
MaskMatrix(M, k, rows) ==
    [a \in DOMAIN M |-> [b \in DOMAIN M |-> IF a < k /\ b < rows THEN M[a][b] ELSE 0]]

\* C1: the column accumulation over the full matrix, with a configuration's
\* own spin vector as both encodings, returns exactly the configuration's
\* Hamiltonian energy; so does energy_from_columns_full over the full size.
ColumnAccumulationEquivalence ==
    /\ (pc = "returned" /\ op = "calculate_expected_output_spins")
          => /\ ~calculate_hamiltonian(sigma_new, J).raised
             /\ ret.value = calculate_hamiltonian(sigma_new, J).value
    /\ (pc = "returned" /\ op = "energy_from_columns_full" /\ vector_size = N)
          => ret.value = calculate_hamiltonian(sigma_new, J).value

ColumnAccumulationWitness ==
    /\ pc = "returned"
    /\ op = "calculate_expected_output_spins"
    /\ N >= 2
    /\ ~Symmetric(J)
    /\ sigma_new[0] # sigma_new[1]
    /\ ret.value # 0

\* C2: over the full size, verify_iterative_vs_hamiltonian reports a match:
\* the difference of the two column-wise energies equals the energy
\* difference of the closed form.
IterativeMatchesHamiltonian ==
    (op = "verify_iterative_vs_hamiltonian" /\ vector_size = N)
       => /\ ~ret.raised
          /\ ret.value.match = TRUE
          /\ ret.value.iterative_result = ret.value.hamiltonian_result

IterativeMatchesWitness ==
    /\ op = "verify_iterative_vs_hamiltonian"
    /\ vector_size = N
    /\ N >= 2
    /\ ~Symmetric(J)
    /\ sigma_old # sigma_new
    /\ ret.value.hamiltonian_result # 0

\* C3: the energy difference between the all-ones and the all-zeros
\* configuration is 0 for every square matrix, and
\* verify_global_flip_symmetry returns True.
GlobalFlipSymmetry ==
    /\ op = "verify_global_flip_symmetry" => ret = Return(TRUE)
    /\ (op = "calculate_energy_difference"
          /\ sigma_old = np_ones(N) /\ sigma_new = np_zeros(N))
          => ret = Return(0)

GlobalFlipWitness ==
    /\ op = "calculate_energy_difference"
    /\ sigma_old = np_ones(N)
    /\ sigma_new = np_zeros(N)
    /\ N >= 2
    /\ ~Symmetric(J)
    /\ calculate_hamiltonian(sigma_old, J).value # 0

\* C4: after decomposing two equal-length configurations and encoding with
\* active size v, exactly one of sigma_f[i], sigma_f_inv[i] is 1 at every
\* index, sigma_c[i] and sigma_r[i] are never both nonzero, and below v
\* exactly one of them is nonzero.
DecompositionCompleteness ==
    /\ (pc \in {"decomposed", "encoded_c", "encoded_r"}
          /\ Size(sigma_old) = Size(sigma_new))
          => /\ DOMAIN sigma_f = DOMAIN sigma_new
             /\ DOMAIN sigma_f_inv = DOMAIN sigma_new
             /\ \A i \in DOMAIN sigma_f :
                   /\ {sigma_f[i], sigma_f_inv[i]} \subseteq {0, 1}
                   /\ (sigma_f[i] = 1) # (sigma_f_inv[i] = 1)
    /\ pc = "encoded_r"
          => \A i \in DOMAIN sigma_f :
                /\ ~(sigma_c[i] # 0 /\ sigma_r[i] # 0)
                /\ i < vector_size => ((sigma_c[i] # 0) # (sigma_r[i] # 0))

DecompositionWitness ==
    /\ pc = "encoded_r"
    /\ 0 < vector_size
    /\ vector_size < Size(sigma_f)
    /\ \E i \in DOMAIN sigma_f : i < vector_size /\ sigma_c[i] # 0
    /\ \E i \in DOMAIN sigma_f : i < vector_size /\ sigma_r[i] # 0

\* C5: decomposed with the full active size, new is reproduced from the
\* decomposition: new[i] = old[i] XOR sigma_f[i], and new[i] is 1 exactly
\* when sigma_c[i] + sigma_r[i] is +1, 0 exactly when it is -1.
RoundTrip ==
    (pc = "encoded_r" /\ vector_size = Size(sigma_new))
       => \A i \in DOMAIN sigma_new :
             /\ sigma_new[i] = Xor(sigma_old[i], sigma_f[i])
             /\ (sigma_new[i] = 1) <=> (sigma_c[i] + sigma_r[i] = 1)
             /\ (sigma_new[i] = 0) <=> (sigma_c[i] + sigma_r[i] = -1)

RoundTripWitness ==
    /\ pc = "encoded_r"
    /\ vector_size = Size(sigma_new)
    /\ \E i \in DOMAIN sigma_new : sigma_f[i] = 1 /\ sigma_new[i] = 0
    /\ \E i \in DOMAIN sigma_new : sigma_f[i] = 1 /\ sigma_new[i] = 1
    /\ \E i \in DOMAIN sigma_new : sigma_f[i] = 0

\* The case of C6: a constant matrix, old all ones, new equal to old except
\* bit 0 flipped from 1 to 0, handed to calculate_energy_difference.
SingleFlipCase ==
    /\ op = "calculate_energy_difference"
    /\ ConstantMatrix(J)
    /\ sigma_old = np_ones(N)
    /\ sigma_new = [i \in 0..(N - 1) |-> IF i = 0 THEN 0 ELSE 1]

\* C6 as claimed: in the single-flip case the energy difference equals
\* -2 * spin_old[0] * (sum over j # 0 of J[0,j] * spin_old[j]).
SingleFlipClosedFormAsClaimed ==
    SingleFlipCase
       => ret = Return(-2 * ToSpins(sigma_old)[0]
                          * OffDiagonalRow0(J, ToSpins(sigma_old)))

\* C6 amended: in the single-flip case the energy difference equals
\* -4 * spin_old[0] * (sum over j # 0 of J[0,j] * spin_old[j]): row 0 and
\* column 0 of J both contribute.
SingleFlipClosedForm ==
    SingleFlipCase
       => ret = Return(-4 * ToSpins(sigma_old)[0]
                          * OffDiagonalRow0(J, ToSpins(sigma_old)))

SingleFlipWitness ==
    /\ SingleFlipCase
    /\ N >= 2
    /\ ret.value # 0

\* C7: generate_sigma_f on two configurations of different lengths always
\* raises and never returns a (sigma_f, sigma_f_inv) pair.
LengthMismatchAlwaysRaises ==
    (op = "generate_sigma_f" /\ Size(sigma_old) # Size(sigma_new)) => ret.raised

\* C8: calculate_hamiltonian on a configuration whose length differs from
\* the dimension of J raises a shape error and returns no energy.
ShapeMismatchSignalled ==
    (op = "calculate_hamiltonian" /\ Size(sigma_new) # N)
       => ret = Raise("ValueError")

ShapeMismatchWitness ==
    /\ op = "calculate_hamiltonian"
    /\ Size(sigma_new) = 1
    /\ N = 2
    /\ ret.raised

\* C9: in calculate_expected_output with col_per_cc <= vector_size <= N,
\* after the outer loop has processed columns 0..col-1 the running total is
\* the sum over those columns of sigma_c[c] * (sum over row < vector_size of
\* sigma_r[row] * J[c][row]); the returned value is that sum over all
\* col_per_cc columns; J is read only inside the window, and the result is
\* the one the function gives with everything outside the window zeroed.
AccumulatorInvariant ==
    /\ col \in 0..col_per_cc
    /\ total_sum = WindowSum(sigma_r, sigma_c, J, col, vector_size)
    /\ pc = "inner"
          => /\ col < col_per_cc
             /\ row \in 0..vector_size
             /\ column_sum = RowSum(sigma_r, J, col, row)
    /\ reads \subseteq (0..(col_per_cc - 1)) \X (0..(vector_size - 1))
    /\ pc = "done"
          => /\ col = col_per_cc
             /\ ret = Return(WindowSum(sigma_r, sigma_c, J, col_per_cc, vector_size))
             /\ reads = (0..(col_per_cc - 1)) \X (0..(vector_size - 1))
             /\ ret.value = calculate_expected_output(
                                MaskVec(sigma_r, vector_size),
                                MaskVec(sigma_c, col_per_cc),
                                MaskMatrix(J, col_per_cc, vector_size),
                                col_per_cc, vector_size)

AccumulatorWitness ==
    /\ pc = "done"
    /\ 1 <= col_per_cc
    /\ col_per_cc < N
    /\ sigma_c[col_per_cc] # 0
    /\ sigma_r[N - 1] # 0
    /\ ret.value # 0

\* C10: with sigma_r, sigma_c the encodings of (old, new) at active size N,
\* the energy difference is twice the accumulator output on J plus the
\* accumulator output on J transposed; for symmetric J it is 4 times the
\* accumulator output.
FlipGatedRelation ==
    (pc = "returned" /\ op = "calculate_expected_output" /\ vector_size = N)
       => LET delta == calculate_energy_difference(sigma_old, sigma_new, J)
              hw_t  == calculate_expected_output(sigma_r, sigma_c, Transpose(J), N, N)
          IN  /\ ~delta.raised
              /\ delta.value = 2 * (ret.value + hw_t)
              /\ Symmetric(J) => delta.value = 4 * ret.value

FlipGatedWitness ==
    /\ pc = "returned"
    /\ op = "calculate_expected_output"
    /\ vector_size = N
    /\ N >= 2
    /\ ~Symmetric(J)
    /\ ret.value # 0
    /\ ret.value # calculate_expected_output(sigma_r, sigma_c, Transpose(J), N, N)

====
